---- MODULE Spec2Model ----
(***************************************************************************)
(* A model of the TBS1000 oscilloscope driver                              *)
(* (YorkUphysLab/Tektronix/TBS1000.py): the connection state of the scope  *)
(* object, the commands each method sends to the instrument, waveform      *)
(* acquisition and scaling (get_data), the period measurement              *)
(* (get_period), the phase alignment (phase_shift) and the mixing          *)
(* (multiply_waveforms).                                                   *)
(*                                                                         *)
(* Numbers.  The driver computes in Python floats.  The model computes in  *)
(* exact integer arithmetic: times are integer multiples of one time unit, *)
(* voltages and scale factors are integers, and phases are whole multiples *)
(* of 45 degrees (for which phase/360 is exact in binary floating point).  *)
(* Floating-point rounding is therefore outside the model.                 *)
(*                                                                         *)
(* The instrument.  Replies of the instrument are inputs of the actions,   *)
(* drawn from the small sets below.  The instrument answers 'curve?' with  *)
(* the samples data:start..data:stop of its record, as the commands of the *)
(* same call have set them.                                                *)
(***************************************************************************)
EXTENDS Integers, Sequences, FiniteSets, TLC

VARIABLES
    is_open,    \* self.is_open
    inst,       \* self.inst: "None", or the state of the VISA handle it holds
    op,         \* the method called last
    arg,        \* its inputs, and the connection state it was called in
    res         \* its outcome: result, commands sent, diagnostics logged

vars == <<is_open, inst, op, arg, res>>

----------------------------------------------------------------------------
(* Bounds of the model. *)

MaxRecord == 3       \* record lengths the instrument reports: 1..MaxRecord
MaxLen == 5          \* lengths of the sequences given to phase_shift: 0..MaxLen
MaxMixLen == 3       \* lengths of the sequences given to multiply_waveforms
MaxPeriod == 3       \* measured periods, in time units: 1..MaxPeriod
MaxTotal == 2        \* total_time given to phase_shift, in time units
MaxPhaseSteps == 8   \* phase_shift in degrees: 45 * (-MaxPhaseSteps..MaxPhaseSteps)

Channels == {0, 1, 2, 3}
Periods == 1..MaxPeriod
Totals == 1..MaxTotal
PhaseDegs == {45 * k : k \in (0 - MaxPhaseSteps)..MaxPhaseSteps}
MixVals == {0 - 1, 2}

Min(a, b) == IF a < b THEN a ELSE b
Max(a, b) == IF a > b THEN a ELSE b

----------------------------------------------------------------------------
(* Outcomes of a call. *)

NoVal == <<>>

Returned(v, sent, logs) ==
    [kind |-> "return", exc |-> "", val |-> v, sent |-> sent, logs |-> logs]
ReturnedNone(sent, logs) ==
    [kind |-> "None", exc |-> "", val |-> NoVal, sent |-> sent, logs |-> logs]
Raised(e, sent, logs) ==
    [kind |-> "raise", exc |-> e, val |-> NoVal, sent |-> sent, logs |-> logs]

(* Commands that reach the instrument: inst.write, inst.query and          *)
(* inst.query_binary_values, with the command text and its numeric part.   *)
Write(text, n) == [io |-> "write", text |-> text, n |-> n]
Query(text) == [io |-> "query", text |-> text, n |-> 0]
QueryBinary(text) == [io |-> "query_binary_values", text |-> text, n |-> 0]

Info(msg, n) == [level |-> "info", msg |-> msg, n |-> n]
Error(msg, n, m) == [level |-> "error", msg |-> msg, n |-> n, m |-> m]

----------------------------------------------------------------------------
(* The scope object. *)

Self == [is_open |-> is_open, inst |-> inst]

(* is_connected, testing the handle in place of the flag *)
is_connected_by_handle(self) == self.inst # "None"

is_connected(self) == self.is_open

Init ==
    /\ is_open = FALSE
    /\ inst = "None"
    /\ op = "init"
    /\ arg = [was_open |-> FALSE, was_inst |-> "None"]
    /\ res = ReturnedNone(<<>>, <<>>)

----------------------------------------------------------------------------
(* connect: the resource manager either finds a USB resource whose *idn?   *)
(* reply holds the keyword (found) or does not.  self.inst is assigned     *)
(* only when one is found, so after a close an unsuccessful search leaves  *)
(* the closed handle in self.inst, and the *idn? query of the logging line *)
(* raises on it before is_open is set.                                     *)
connect(self, found) ==
    LET dev == IF found THEN "open" ELSE self.inst
        search == IF found THEN <<Query("*idn?")>> ELSE <<>>
    IN  IF dev = "None"
        THEN [is_open |-> self.is_open, inst |-> self.inst,
              out |-> Returned(FALSE, search,
                               <<Info("No Tektronix TBS scope was found!", 0)>>)]
        ELSE IF dev = "closed"
        THEN [is_open |-> self.is_open, inst |-> self.inst,
              out |-> Raised("InvalidSession", search, <<>>)]
        ELSE [is_open |-> TRUE, inst |-> dev,
              out |-> Returned(TRUE,
                               search \o <<Query("*idn?"), Write("*cls", 0)>>,
                               <<Info("Tektronix TBS scope found", 0)>>)]

close(self) ==
    IF is_connected(self)
    THEN [is_open |-> FALSE, inst |-> "closed",
          out |-> ReturnedNone(<<>>,
                    <<Info("Tektronix TBS scope connection is closed.", 0)>>)]
    ELSE [is_open |-> self.is_open, inst |-> self.inst,
          out |-> ReturnedNone(<<>>,
                    <<Info("Tektronix TBS scope is not connected!", 0)>>)]

(* A write or query on self.inst: on None it raises AttributeError, on a   *)
(* closed handle pyvisa raises InvalidSession; nothing reaches the         *)
(* instrument in either case.                                              *)
inst_error(self) ==
    IF self.inst = "None" THEN "AttributeError"
    ELSE IF self.inst = "closed" THEN "InvalidSession"
    ELSE ""

(* get_period without the channel check *)
get_period_unchecked(self, channel, measured) ==
    IF inst_error(self) # ""
    THEN Raised(inst_error(self), <<>>, <<>>)
    ELSE Returned(measured,
                  << Write("MEASUrement:IMMed:TYPE PERiod", 0),
                     Write("MEASUrement:IMMed:SOUrce CH", channel),
                     Query("MEASUrement:IMMed:VALue?") >>,
                  <<>>)

----------------------------------------------------------------------------
(* get_period: measured is the instrument's reply to                       *)
(* MEASUrement:IMMed:VALue?, in time units.                                *)
get_period(self, channel, measured) ==
    IF channel \notin {1, 2}
    THEN Raised("ValueError", <<>>, <<>>)
    ELSE IF inst_error(self) # ""
    THEN Raised(inst_error(self), <<>>, <<>>)
    ELSE Returned(measured,
                  << Write("MEASUrement:IMMed:TYPE PERiod", 0),
                     Write("MEASUrement:IMMed:SOUrce CH", channel),
                     Query("MEASUrement:IMMed:VALue?") >>,
                  <<>>)

----------------------------------------------------------------------------
(* The instrument's side of get_data.  A device is the instrument's state  *)
(* at the call: its record (nr_pt raw codes), the five scaling constants,  *)
(* the event-status register and the reply to allev?.                      *)

RawWave(n, shape) ==
    [i \in 1..n |-> IF shape = 1 THEN 10 * (i - 1) ELSE 5 - 10 * i]

NoEventsReply == "0,No events to report - queue empty"
AllevReplies == {NoEventsReply, "410,Query INTERRUPTED"}

Devices ==
    { [nr_pt |-> n, wave |-> RawWave(n, shape),
       xincr |-> xi, xzero |-> xz,
       ymult |-> sc[1], yzero |-> sc[2], yoff |-> sc[3],
       esr |-> e, allev |-> a] :
      n \in 1..MaxRecord, shape \in {1, 2}, xi \in {1, 2}, xz \in {0 - 1, 0},
      sc \in {<<1, 0, 0>>, <<2, 1, 0 - 3>>}, e \in {0, 32}, a \in AllevReplies }

(* The numeric part of the last command `text` in sent (0 if none). *)
LastSet(sent, text) ==
    LET at == {i \in 1..Len(sent) : sent[i].text = text}
    IN  IF at = {} THEN 0
        ELSE sent[CHOOSE i \in at : \A j \in at : j <= i].n

(* The instrument's reply to curve?: the samples data:start..data:stop of  *)
(* its record, as the commands sent so far have set them.                  *)
curve(dev, sent) ==
    SubSeq(dev.wave, Max(LastSet(sent, "data:start"), 1),
           Min(LastSet(sent, "data:stop"), Len(dev.wave)))

----------------------------------------------------------------------------
(* get_data, by the sections of its code. *)

io_config(channel, record) ==
    << Write("header", 0),
       Write("data:encdg RIBINARY", 0),
       Write("data:source CH", channel),
       Write("data:start", 1),
       Query("wfmpre:nr_pt?"),
       Write("data:stop", record),
       Write("wfmpre:byt_nr", 1) >>

(* acq_config with the run command sent before the stop *)
acq_config_run_first ==
    << Write("acquire:state", 1),
       Write("acquire:state", 0),
       Write("acquire:stopafter SEQUENCE", 0) >>

acq_config ==
    << Write("acquire:state", 0),
       Write("acquire:stopafter SEQUENCE", 0),
       Write("acquire:state", 1) >>

data_query ==
    << QueryBinary("curve?"),
       Query("wfmpre:xincr?"),
       Query("wfmpre:xzero?"),
       Query("wfmpre:ymult?"),
       Query("wfmpre:yzero?"),
       Query("wfmpre:yoff?") >>

(* 'No events' not in r *)
has_events(r) == r # NoEventsReply

(* error_checking raising on a non-zero event-status register *)
error_checking_strict(esr, allev) ==
    [exc |-> IF esr # 0 THEN "RuntimeError" ELSE "",
     sent |-> <<Query("*esr?"), Query("allev?")>>,
     logs |-> <<>>]

(* The status inspection reads both registers and only logs. *)
error_checking(esr, allev) ==
    [exc |-> "",
     sent |-> <<Query("*esr?"), Query("allev?")>>,
     logs |-> (IF esr # 0
               THEN <<Info("event status register", esr)>> ELSE <<>>)
              \o (IF has_events(allev)
                  THEN <<Info("all event messages", 0)>> ELSE <<>>)]

(* np.linspace with the end point included *)
linspace_endpoint(start, stop, num) ==
    [i \in 1..num |->
        start + (i - 1) * (IF num > 1 THEN (stop - start) \div (num - 1) ELSE 0)]

(* np.linspace(start, stop, num, endpoint=False) *)
linspace(start, stop, num) ==
    [i \in 1..num |-> start + (i - 1) * ((stop - start) \div num)]

scale_time(tstart, tstop, record) ==
    [i \in 1..record |-> linspace(tstart, tstop, record)[i] * 1000]

scale_wave(bin_wave, vpos, vscale, voff) ==
    [i \in 1..Len(bin_wave) |-> (bin_wave[i] - vpos) * vscale + voff]

get_data(self, channel, dev) ==
    IF ~is_connected(self)
    THEN ReturnedNone(<<>>, <<>>)
    ELSE IF channel \notin {1, 2}
    THEN Raised("ValueError", <<>>, <<>>)
    ELSE IF inst_error(self) # ""
    THEN Raised(inst_error(self), <<>>, <<>>)
    ELSE
      LET record == dev.nr_pt
          config == io_config(channel, record) \o acq_config
          bin_wave == curve(dev, config)
          tscale == dev.xincr
          tstart == dev.xzero
          vscale == dev.ymult
          voff == dev.yzero
          vpos == dev.yoff
          chk == error_checking(dev.esr, dev.allev)
          sent == config \o data_query \o chk.sent
          total_time == tscale * record
          tstop == tstart + total_time
          scaled_time == scale_time(tstart, tstop, record)
          scaled_wave == scale_wave(bin_wave, vpos, vscale, voff)
      IN  IF chk.exc # ""
          THEN Raised(chk.exc, sent, chk.logs)
          ELSE Returned([time |-> scaled_time, wave |-> scaled_wave,
                         total |-> total_time], sent, chk.logs)

----------------------------------------------------------------------------
(* Python arithmetic and slicing, as phase_shift uses them. *)

(* divmod truncating towards zero: the remainder takes the sign of a *)
divmod_trunc(a, b) ==
    IF a >= 0 THEN <<a \div b, a % b>>
    ELSE <<0 - ((0 - a) \div b), 0 - ((0 - a) % b)>>

(* divmod(a, b) for b > 0: floor division and a remainder in 0..b-1 *)
divmod(a, b) == <<a \div b, a % b>>

(* int(num / den) for den > 0: truncation towards zero *)
int(num, den) ==
    IF num >= 0 THEN num \div den ELSE 0 - ((0 - num) \div den)

(* A slice bound i on a sequence of length n: negative bounds count from   *)
(* the end, and every bound is clamped to 0..n.                            *)
slice_index(i, n) == IF i < 0 THEN Max(i + n, 0) ELSE Min(i, n)

(* a[:len(a) + stop] in place of a[:stop]: a bound below -len(a) wraps *)
slice_to_from_length(a, stop) ==
    SubSeq(a, 1, slice_index(Len(a) + stop, Len(a)))

(* a[:stop] *)
slice_to(a, stop) == SubSeq(a, 1, slice_index(stop, Len(a)))

(* a[:len(a) - start] in place of a[start:]: the head is kept *)
slice_from_head(a, start) ==
    SubSeq(a, 1, Len(a) - slice_index(start, Len(a)))

(* a[start:] *)
slice_from(a, start) == SubSeq(a, slice_index(start, Len(a)) + 1, Len(a))

----------------------------------------------------------------------------
(* phase_shift: measured is the instrument's reply to the period query     *)
(* that get_period(channel=2) makes.                                       *)
phase_shift(self, scaled_time, waveform_1, waveform_2, total_time, phase_deg, measured) ==
    LET phase == divmod(phase_deg, 360)[2]
        p == get_period(self, 2, measured)
    IN  IF p.kind = "raise"
        THEN p
        ELSE
          LET period == p.val
              samples_in_period == int(period * Len(waveform_2), total_time)
              shift_samples == int(phase * samples_in_period, 360)
          IN  IF shift_samples = 0
              THEN Returned([time |-> scaled_time, w1 |-> waveform_1,
                             w2 |-> waveform_2], p.sent, <<>>)
              ELSE Returned([time |-> slice_to(scaled_time, (0 - 1) * shift_samples),
                             w1 |-> slice_to(waveform_1, (0 - 1) * shift_samples),
                             w2 |-> slice_from(waveform_2, shift_samples)],
                            p.sent, <<>>)

(* zip(a, b) stops at the shorter sequence *)
zip_len(a, b) == Min(Len(a), Len(b))

(* multiply_waveforms without the length check: zip truncates *)
multiply_waveforms_truncating(waveform_1, waveform_2) ==
    Returned([i \in 1..zip_len(waveform_1, waveform_2) |->
                 waveform_1[i] * waveform_2[i]], <<>>, <<>>)

multiply_waveforms(waveform_1, waveform_2) ==
    IF Len(waveform_1) # Len(waveform_2)
    THEN ReturnedNone(<<>>, <<Error("Waveforms must be the same length",
                                    Len(waveform_1), Len(waveform_2))>>)
    ELSE Returned([i \in 1..zip_len(waveform_1, waveform_2) |->
                      waveform_1[i] * waveform_2[i]], <<>>, <<>>)

----------------------------------------------------------------------------
(* Inputs of phase_shift and multiply_waveforms. *)

(* A time axis in ms and two waveforms of n samples, all values distinct   *)
(* within a sequence: n = 5 gives [0,1,2,3,4], [1,2,3,4,5], [5,4,3,2,1].   *)
TimeAxis(n) == [i \in 1..n |-> i - 1]
WaveA(n) == [i \in 1..n |-> i]
WaveB(n) == [i \in 1..n |-> n + 1 - i]

SeqsUpTo(S, n) == UNION {[1..k -> S] : k \in 0..n}
MixInputs == SeqsUpTo(MixVals, MaxMixLen) \cup {<<1, 2, 3>>, <<4, 5, 6>>}

----------------------------------------------------------------------------
(* The calls. *)

Called(name, inputs, out) ==
    /\ op' = name
    /\ arg' = inputs
    /\ res' = out

Connect ==
    \E found \in BOOLEAN :
        LET r == connect(Self, found)
        IN  /\ is_open' = r.is_open
            /\ inst' = r.inst
            /\ Called("connect",
                      [was_open |-> is_open, was_inst |-> inst, found |-> found],
                      r.out)

Close ==
    LET r == close(Self)
    IN  /\ is_open' = r.is_open
        /\ inst' = r.inst
        /\ Called("close", [was_open |-> is_open, was_inst |-> inst], r.out)

GetPeriod ==
    \E channel \in Channels, measured \in Periods :
        /\ Called("get_period",
                  [was_open |-> is_open, was_inst |-> inst,
                   channel |-> channel, measured |-> measured],
                  get_period(Self, channel, measured))
        /\ UNCHANGED <<is_open, inst>>

GetData ==
    \E channel \in Channels, dev \in Devices :
        /\ Called("get_data",
                  [was_open |-> is_open, was_inst |-> inst,
                   channel |-> channel, dev |-> dev],
                  get_data(Self, channel, dev))
        /\ UNCHANGED <<is_open, inst>>

PhaseShift ==
    \E n \in 0..MaxLen, total_time \in Totals, phase_deg \in PhaseDegs,
       measured \in Periods :
        /\ Called("phase_shift",
                  [was_open |-> is_open, was_inst |-> inst,
                   time |-> TimeAxis(n), w1 |-> WaveA(n), w2 |-> WaveB(n),
                   total_time |-> total_time, phase_deg |-> phase_deg,
                   measured |-> measured],
                  phase_shift(Self, TimeAxis(n), WaveA(n), WaveB(n),
                              total_time, phase_deg, measured))
        /\ UNCHANGED <<is_open, inst>>

MultiplyWaveforms ==
    \E a \in MixInputs, b \in MixInputs :
        /\ Called("multiply_waveforms",
                  [was_open |-> is_open, was_inst |-> inst, w1 |-> a, w2 |-> b],
                  multiply_waveforms(a, b))
        /\ UNCHANGED <<is_open, inst>>

(* Acquisition: the connection lifecycle with get_data and get_period. *)
Next == Connect \/ Close \/ GetData \/ GetPeriod
Spec == Init /\ [][Next]_vars

(* Alignment: the connection lifecycle with get_period and phase_shift. *)
NextAlign == Connect \/ Close \/ GetPeriod \/ PhaseShift
SpecAlign == Init /\ [][NextAlign]_vars

(* Mixing: multiply_waveforms on every pair of inputs. *)
NextMix == MultiplyWaveforms
SpecMix == Init /\ [][NextMix]_vars

TypeOK ==
    /\ is_open \in BOOLEAN
    /\ inst \in {"None", "open", "closed"}
    /\ is_open <=> (inst = "open")
    /\ res.kind \in {"return", "None", "raise"}

----------------------------------------------------------------------------
(* Properties. *)

(* The scope object as it was when the last call was made. *)
SelfAtCall == [is_open |-> arg.was_open, inst |-> arg.was_inst]

ValidChannel == arg.channel \in {1, 2}

(* C1, as stated: a get_data or get_period call with a channel outside     *)
(* {1, 2} fails with ValueError and sends nothing to the instrument, in    *)
(* every connection state.                                                 *)
C1_InvalidChannelRaisesInEveryState ==
    (op \in {"get_data", "get_period"} /\ ~ValidChannel)
        => (res.kind = "raise" /\ res.exc = "ValueError" /\ res.sent = <<>>)

(* C1, amended: with a channel outside {1, 2}, get_period fails with       *)
(* ValueError in every connection state; get_data fails with ValueError    *)
(* when is_connected() is true and returns None when it is false; in all   *)
(* these cases nothing is sent to the instrument.                          *)
C1_InvalidChannel ==
    /\ (op = "get_period" /\ ~ValidChannel)
         => (res.kind = "raise" /\ res.exc = "ValueError" /\ res.sent = <<>>)
    /\ (op = "get_data" /\ ~ValidChannel)
         => /\ res.sent = <<>>
            /\ arg.was_open => (res.kind = "raise" /\ res.exc = "ValueError")
            /\ ~arg.was_open => res.kind = "None"

C1_Witness ==
    /\ op = "get_data"
    /\ arg.channel = 3
    /\ arg.was_open
    /\ res.kind = "raise"
    /\ res.exc = "ValueError"

(* C2: a get_data call with channel 1 or 2 made while is_connected() is    *)
(* false returns None without raising, sends nothing to the instrument and *)
(* leaves is_open false.                                                   *)
C2_GetDataNotConnected ==
    (op = "get_data" /\ ValidChannel /\ ~arg.was_open)
        => (res.kind = "None" /\ res.sent = <<>> /\ is_open = FALSE)

(* get_data after a close, before the next successful connect *)
C2_Witness ==
    /\ op = "get_data"
    /\ ValidChannel
    /\ ~arg.was_open
    /\ arg.was_inst = "closed"
    /\ res.kind = "None"

(* C3: get_period with channel 1 or 2, and phase_shift, made while the     *)
(* instrument link is not connected return None rather than raising.       *)
C3_PeriodNotConnectedReturnsNone ==
    (/\ op \in {"get_period", "phase_shift"}
     /\ ~arg.was_open
     /\ op = "get_period" => ValidChannel)
        => res.kind = "None"

(* C4: multiply_waveforms on sequences of different lengths reports the    *)
(* length-mismatch error and returns None; on sequences of one length n    *)
(* (0 and 1 included) it returns a sequence of length n whose i-th element *)
(* is a[i] * b[i]; mix([1,2,3],[4,5,6]) = [4,10,18].                       *)
C4_Multiply ==
    op = "multiply_waveforms" =>
        LET a == arg.w1
            b == arg.w2
        IN  /\ Len(a) # Len(b) =>
                /\ res.kind = "None"
                /\ \E k \in 1..Len(res.logs) : res.logs[k].level = "error"
            /\ Len(a) = Len(b) =>
                /\ res.kind = "return"
                /\ res.logs = <<>>
                /\ Len(res.val) = Len(a)
                /\ \A i \in 1..Len(a) : res.val[i] = a[i] * b[i]
            /\ (a = <<1, 2, 3>> /\ b = <<4, 5, 6>>) =>
                (res.kind = "return" /\ res.val = <<4, 10, 18>>)

C4_Witness ==
    /\ op = "multiply_waveforms"
    /\ arg.w1 = <<1, 2, 3>>
    /\ arg.w2 = <<4, 5, 6>>
    /\ res.kind = "return"
    /\ res.val = <<4, 10, 18>>

(* shift_samples as the claims state it, for the last phase_shift call:    *)
(* floor((phase / 360) * floor(period / total_time * N)), phase being      *)
(* phase_deg reduced into [0, 360).                                        *)
ClaimedPhase == arg.phase_deg % 360
ClaimedSamplesInPeriod == (arg.measured * Len(arg.w2)) \div arg.total_time
ClaimedShift == (ClaimedPhase * ClaimedSamplesInPeriod) \div 360

PhaseShiftReturned == op = "phase_shift" /\ res.kind = "return"

(* C5: with N the common input length: if shift_samples = 0 the output is  *)
(* the input triple; if 0 < shift_samples < N the output time axis and     *)
(* waveform 1 are the first N - shift_samples elements of their inputs and *)
(* the output waveform 2 is the last N - shift_samples elements of its     *)
(* input.  N = 5, total_time twice the period, phase 180: shift_samples is *)
(* 1 and the outputs are [0,1,2,3], [1,2,3,4], [4,3,2,1].                  *)
C5_PhaseShiftSlices ==
    PhaseShiftReturned =>
        LET N == Len(arg.w2)
            k == ClaimedShift
        IN  /\ k = 0 =>
                (res.val.time = arg.time /\ res.val.w1 = arg.w1
                 /\ res.val.w2 = arg.w2)
            /\ (0 < k /\ k < N) =>
                /\ res.val.time = SubSeq(arg.time, 1, N - k)
                /\ res.val.w1 = SubSeq(arg.w1, 1, N - k)
                /\ res.val.w2 = SubSeq(arg.w2, k + 1, N)
                /\ Len(res.val.time) = N - k
                /\ Len(res.val.w1) = N - k
                /\ Len(res.val.w2) = N - k
            /\ (N = 5 /\ arg.total_time = 2 * arg.measured
                      /\ arg.phase_deg = 180) =>
                /\ k = 1
                /\ res.val.time = <<0, 1, 2, 3>>
                /\ res.val.w1 = <<1, 2, 3, 4>>
                /\ res.val.w2 = <<4, 3, 2, 1>>

C5_Witness ==
    /\ PhaseShiftReturned
    /\ Len(arg.w2) = 5
    /\ arg.total_time = 2 * arg.measured
    /\ arg.phase_deg = 180
    /\ res.val.w2 = <<4, 3, 2, 1>>

(* C6: phase_shift returns for phase_deg what it returns for phase_deg     *)
(* reduced modulo 360 into [0, 360), and for a multiple of 360 it returns  *)
(* the three inputs unchanged.                                             *)
C6_PhaseModulo360 ==
    op = "phase_shift" =>
        /\ res = phase_shift(SelfAtCall, arg.time, arg.w1, arg.w2,
                             arg.total_time, arg.phase_deg % 360, arg.measured)
        /\ (res.kind = "return" /\ arg.phase_deg % 360 = 0) =>
               (res.val.time = arg.time /\ res.val.w1 = arg.w1
                /\ res.val.w2 = arg.w2)

(* phase -90 shifts as 270 does *)
C6_Witness ==
    /\ PhaseShiftReturned
    /\ arg.phase_deg = 0 - 90
    /\ Len(arg.w2) = 4
    /\ arg.measured = arg.total_time
    /\ res.val.w2 = <<1>>

(* C7: a successful get_data call on a record of N samples returns N time  *)
(* values and N voltages; the time values rise by time_increment * 1000    *)
(* from time_zero * 1000, the end point (time_zero + time_increment * N) * *)
(* 1000 is not among them, and the total time is time_increment * N.       *)
C7_ScaledLengths ==
    (op = "get_data" /\ res.kind = "return") =>
        LET N == arg.dev.nr_pt
            t == res.val.time
            step == arg.dev.xincr * 1000
        IN  /\ Len(t) = N
            /\ Len(res.val.wave) = N
            /\ t[1] = arg.dev.xzero * 1000
            /\ \A i \in 1..(N - 1) : t[i + 1] = t[i] + step /\ t[i] < t[i + 1]
            /\ \A i \in 1..N : t[i] # (arg.dev.xzero + arg.dev.xincr * N) * 1000
            /\ res.val.total = arg.dev.xincr * N

C7_Witness ==
    /\ op = "get_data"
    /\ res.kind = "return"
    /\ arg.dev.nr_pt = 3
    /\ arg.dev.xincr = 2
    /\ res.val.time = <<0 - 1000, 1000, 3000>>
    /\ Len(res.val.wave) = 3

(* Where command c is in the sequence s of commands sent. *)
At(s, c) == {i \in 1..Len(s) : s[i] = c}
Once(s, c) == Cardinality(At(s, c)) = 1
Pos(s, c) == CHOOSE i \in At(s, c) : TRUE

ScalingQueries ==
    { Query("wfmpre:xincr?"), Query("wfmpre:xzero?"), Query("wfmpre:ymult?"),
      Query("wfmpre:yzero?"), Query("wfmpre:yoff?") }

(* C8: a get_data call on a connected scope with a valid channel sends,    *)
(* each exactly once: the encoding and the source channel, then the        *)
(* record-length query, then data:stop with the value that query returned; *)
(* then acquisition stop, single-sequence mode, acquisition run; then the  *)
(* curve query; then the five scaling queries; and last the event-status   *)
(* register and the event-message queue.                                   *)
C8_CommandOrder ==
    (op = "get_data" /\ arg.was_open /\ ValidChannel) =>
        LET s == res.sent
            encdg == Write("data:encdg RIBINARY", 0)
            source == Write("data:source CH", arg.channel)
            nr_pt == Query("wfmpre:nr_pt?")
            stop == Write("data:stop", arg.dev.nr_pt)
            halt == Write("acquire:state", 0)
            single == Write("acquire:stopafter SEQUENCE", 0)
            run == Write("acquire:state", 1)
            block == QueryBinary("curve?")
            esr == Query("*esr?")
            allev == Query("allev?")
        IN  /\ \A c \in {encdg, source, nr_pt, stop, halt, single, run, block,
                         esr, allev} \cup ScalingQueries : Once(s, c)
            /\ \A i \in 1..Len(s) : s[i].text = "data:stop" => s[i] = stop
            /\ \A i \in 1..Len(s) : s[i].text = "data:source CH" => s[i] = source
            /\ Pos(s, encdg) < Pos(s, nr_pt)
            /\ Pos(s, source) < Pos(s, nr_pt)
            /\ Pos(s, nr_pt) < Pos(s, stop)
            /\ Pos(s, stop) < Pos(s, halt)
            /\ Pos(s, halt) < Pos(s, single)
            /\ Pos(s, single) < Pos(s, run)
            /\ Pos(s, run) < Pos(s, block)
            /\ \A q \in ScalingQueries :
                   Pos(s, block) < Pos(s, q) /\ Pos(s, q) < Pos(s, esr)
            /\ Pos(s, esr) = Len(s) - 1
            /\ Pos(s, allev) = Len(s)

C8_Witness ==
    /\ op = "get_data"
    /\ arg.was_open
    /\ arg.channel = 2
    /\ arg.dev.nr_pt = 2
    /\ Len(res.sent) = 18
    /\ res.sent[6] = Write("data:stop", 2)
    /\ res.sent[11] = QueryBinary("curve?")

(* C9: on a connected scope with a valid channel, whatever the             *)
(* event-status register and the event-message queue hold, get_data does   *)
(* not raise and returns the triple it returns with a clean status.        *)
C9_StatusNeverAborts ==
    (op = "get_data" /\ arg.was_open /\ ValidChannel) =>
        LET clean == [arg.dev EXCEPT !.esr = 0, !.allev = NoEventsReply]
        IN  /\ res.kind = "return"
            /\ res.val = get_data(SelfAtCall, arg.channel, clean).val
            /\ res.sent = get_data(SelfAtCall, arg.channel, clean).sent

(* a call with a non-zero register and a non-empty queue, both logged *)
C9_Witness ==
    /\ op = "get_data"
    /\ arg.was_open
    /\ ValidChannel
    /\ arg.dev.esr # 0
    /\ arg.dev.allev # NoEventsReply
    /\ res.kind = "return"
    /\ Len(res.logs) = 2

(* C10: phase_shift returns three sequences of one length, max(0, N -      *)
(* shift_samples), never more than N, also when shift_samples >= N; and    *)
(* multiply_waveforms on the two returned waveforms reports no length      *)
(* mismatch.                                                               *)
C10_CommonLength ==
    PhaseShiftReturned =>
        LET N == Len(arg.w2)
            L == Max(0, N - ClaimedShift)
        IN  /\ Len(res.val.time) = L
            /\ Len(res.val.w1) = L
            /\ Len(res.val.w2) = L
            /\ L <= N
            /\ multiply_waveforms(res.val.w1, res.val.w2).kind = "return"

(* a shift beyond the record: every output is empty *)
C10_Witness ==
    /\ PhaseShiftReturned
    /\ Len(arg.w2) = 2
    /\ ClaimedShift > Len(arg.w2)
    /\ res.val.time = <<>>
    /\ res.val.w1 = <<>>
    /\ res.val.w2 = <<>>

====
